---- MODULE Spec2Model ----
(***************************************************************************)
(* A model of src/predict.py: the Cog predictor of SDXL-Lightning.         *)
(*                                                                         *)
(*   - Predictor.predict (lines 102-187): seed resolution, scheduler swap, *)
(*     batched generation, safety screening, output assembly and the       *)
(*     terminal check, one action per statement group, per calling thread;  *)
(*   - SCHEDULERS / KarrasDPM (lines 38-51): the scheduler registry;       *)
(*   - Predictor.setup / download_weights (lines 53-88): the weight cache  *)
(*     checks, the downloads and the loads, one action per statement.      *)
(*                                                                         *)
(* Three specifications share the actions:                                 *)
(*   Spec       one predict call at a time on a set-up predictor;          *)
(*   SpecConc   two threads calling predict with no serialization;         *)
(*   SpecSetup  setup runs (and process restarts) over one disk.           *)
(***************************************************************************)
EXTENDS Integers, Sequences, FiniteSets, TLC

(***************************************************************************)
(* Bounds of the model.                                                    *)
(***************************************************************************)
MaxCalls == 2          \* predict calls per behaviour
MaxSetupRuns == 3      \* setup runs (process starts) per behaviour

(***************************************************************************)
(* Program constants.                                                      *)
(***************************************************************************)
MinOutputs == 1        \* num_outputs: ge=1
MaxOutputs == 4        \* num_outputs: le=4
UrandomBytes == 4      \* os.urandom(4)

Threads == {1, 2}

None == "None"

(***************************************************************************)
(* The scheduler registry, lines 38-51.  A diffusers scheduler class is    *)
(* named by its class name.  A scheduler instance is a record of the class *)
(* it was built from, its configuration, and the call that built it (its   *)
(* object identity).  Of the configuration the model keeps the two keys    *)
(* the source sets: use_karras_sigmas (line 40) and timestep_spacing       *)
(* (line 157).                                                             *)
(***************************************************************************)
SchedulerNames ==
    {"DDIM", "DPMSolverMultistep", "HeunDiscrete", "KarrasDPM",
     "K_EULER_ANCESTRAL", "K_EULER", "PNDM", "DPM++2MSDE"}

SCHEDULERS ==
    ("DDIM" :> "DDIMScheduler") @@
    ("DPMSolverMultistep" :> "DPMSolverMultistepScheduler") @@
    ("HeunDiscrete" :> "HeunDiscreteScheduler") @@
    ("KarrasDPM" :> "KarrasDPM") @@
    ("K_EULER_ANCESTRAL" :> "EulerAncestralDiscreteScheduler") @@
    ("K_EULER" :> "EulerDiscreteScheduler") @@
    ("PNDM" :> "PNDMScheduler") @@
    ("DPM++2MSDE" :> "KDPM2AncestralDiscreteScheduler")

\* The keyword arguments of the call of line 157, as a function from names
\* to values.
TrailingKwargs == [timestep_spacing |-> "trailing"]

\* config overridden by the keyword arguments that name one of its keys.
Override(config, kwargs) ==
    [k \in DOMAIN config |->
        IF k \in DOMAIN kwargs THEN kwargs[k] ELSE config[k]]

\* diffusers' SchedulerMixin.from_config(config, **kwargs), as the classes
\* imported at lines 14-23 provide it: a new instance of cls whose
\* configuration is config with the keyword arguments laid over it.  Keys
\* the class does not use are kept in the configuration.
LibFromConfig(cls, config, kwargs) ==
    [ok |-> TRUE, kind |-> cls, config |-> Override(config, kwargs)]

TypeError == [ok |-> FALSE, error |-> "TypeError"]

\* A variant of KarrasDPM.from_config that takes **kwargs and passes them on.
KarrasDPM_from_config_kwargs(config, kwargs) ==
    LibFromConfig("DPMSolverMultistepScheduler", config,
                  [use_karras_sigmas |-> TRUE] @@ kwargs)

\* KarrasDPM.from_config(config), lines 38-40: one positional parameter and
\* no keyword parameters, so a call that passes a keyword argument raises
\* TypeError before the body runs.
KarrasDPM_from_config(config, kwargs) ==
    IF DOMAIN kwargs # {}
    THEN TypeError
    ELSE LibFromConfig("DPMSolverMultistepScheduler", config,
                       [use_karras_sigmas |-> TRUE])

\* SCHEDULERS[name].from_config(config, **kwargs), the right-hand side of
\* line 157.
FromConfig(name, config, kwargs) ==
    IF SCHEDULERS[name] = "KarrasDPM"
    THEN KarrasDPM_from_config(config, kwargs)
    ELSE LibFromConfig(SCHEDULERS[name], config, kwargs)

(***************************************************************************)
(* Seed resolution, lines 146-147.                                         *)
(***************************************************************************)
\* An integer of up to 32 bits is held as two 16-bit halves, so that every
\* value of the range is representable: [hi, lo] stands for hi * 2^16 + lo.
Half == 65536

Word(v) == [hi |-> v \div Half, lo |-> v % Half]

RECURSIVE BigEndian(_)
\* The value of a big-endian byte string of at most two bytes.
BigEndian(bytes) ==
    IF Len(bytes) = 0 THEN 0
    ELSE 256 * BigEndian(SubSeq(bytes, 1, Len(bytes) - 1)) + bytes[Len(bytes)]

\* int.from_bytes(bytes, "big"), line 147, for a string of two to four
\* bytes: the last two bytes are the low half, the bytes before the high.
FromBytesBig(bytes) ==
    [hi |-> BigEndian(SubSeq(bytes, 1, Len(bytes) - 2)),
     lo |-> BigEndian(SubSeq(bytes, Len(bytes) - 1, Len(bytes)))]

\* Sample results of os.urandom(4).
UrandomSamples ==
    {b \in {<<0, 0, 0, 0>>, <<0, 0, 1, 0>>, <<255, 255, 255, 255>>} :
        Len(b) = UrandomBytes}

\* An optional integer is a sequence: <<>> for None, <<v>> for the integer v.
NoSeed == <<>>

\* Sample values of the seed input: absent, zero, a typical value.
SeedInputs == {NoSeed, <<Word(0)>>, <<Word(42)>>}

\* A variant that tests the seed's truth value instead of `is None`.
NeedsRandomSeed_falsy(s) == s = NoSeed \/ s = <<Word(0)>>

\* `seed is None`, line 146.
NeedsRandomSeed(s) == s = NoSeed

(***************************************************************************)
(* Requests.                                                               *)
(***************************************************************************)
\* Sample values of the prompt input: the default and another.
Prompts == {"A girl smiling", "A cat"}

Requests ==
    [prompt : Prompts,
     num_outputs : MinOutputs..MaxOutputs,
     scheduler : SchedulerNames,
     seed : SeedInputs,
     disable_safety_checker : BOOLEAN]

\* The requests of the two-thread specification: the default prompt, one
\* image, a caller-supplied seed, the default scheduler or one of two others.
ConcRequests ==
    {r \in Requests :
        /\ r.prompt = "A girl smiling"
        /\ r.num_outputs = MinOutputs
        /\ r.seed = <<Word(0)>>
        /\ r.scheduler \in {"K_EULER", "DDIM", "KarrasDPM"}}

VARIABLES
    pipe_scheduler,     \* self.pipe.scheduler
    ncalls,             \* predict calls started so far
    pc,                 \* per thread: position in predict
    call_id,            \* per thread: which call this is (1, 2, ...)
    req,                \* per thread: the arguments of the call
    seed,               \* per thread: the local `seed` after line 147
    generator,          \* per thread: the seed given to manual_seed, line 149
    prev_scheduler,     \* per thread: pipe.scheduler as read by line 157
    new_scheduler,      \* per thread: the value of the right side of line 157
    gen_scheduler,      \* per thread: pipe.scheduler as read by pipe(...), line 167
    images,             \* per thread: len(output.images)
    checked,            \* per thread: run_safety_checker was called
    has_nsfw_content,   \* per thread: the flags, indexed 0..n-1
    i,                  \* per thread: the loop index of line 173
    output_paths,       \* per thread: the list built at lines 172-180
    saved,              \* per thread: the indices this call saved, line 179
    stdout,             \* per thread: what the call printed
    result,             \* per thread: the returned list (when pc is "returned")
    error,              \* per thread: the exception raised, or None
    overlapped,         \* per thread: another call was in flight during this one
    disk,               \* per artifact: state of its cache directory
    spc,                \* position in setup, "off" when no process runs
    nruns,              \* setup runs started so far
    steps,              \* the steps this setup run has performed, in order
    started,            \* per artifact: downloads started
    fetched,            \* per artifact: downloads completed
    skipped,            \* per artifact: cache checks that found the directory
    loaded              \* the components this process holds in memory

predictVars ==
    <<pipe_scheduler, ncalls, pc, call_id, req, seed, generator,
      prev_scheduler, new_scheduler, gen_scheduler, images, checked,
      has_nsfw_content, i, output_paths, saved, stdout, result, error,
      overlapped>>

setupVars == <<disk, spc, nruns, steps, started, fetched, skipped, loaded>>

vars == <<predictVars, setupVars>>

(***************************************************************************)
(* The state after a successful setup, before the first predict call.      *)
(***************************************************************************)
\* The scheduler configuration that from_pretrained (lines 80-85) reads
\* from the base pipeline: Euler discrete, leading spacing, no Karras sigmas.
BaseConfig == [use_karras_sigmas |-> FALSE, timestep_spacing |-> "leading"]

BaseScheduler ==
    [kind |-> "EulerDiscreteScheduler", config |-> BaseConfig, by |-> 0]

NoScheduler == [kind |-> None, config |-> BaseConfig, by |-> 0]

NoRequest ==
    [prompt |-> "A girl smiling", num_outputs |-> MinOutputs,
     scheduler |-> "K_EULER", seed |-> NoSeed,
     disable_safety_checker |-> FALSE]

Artifacts == {"safety", "base", "unet"}

Components == {"safety_checker", "feature_extractor", "pipe", "unet_weights"}

InitPredict ==
    /\ pipe_scheduler = BaseScheduler
    /\ ncalls = 0
    /\ pc = [t \in Threads |-> "idle"]
    /\ call_id = [t \in Threads |-> 0]
    /\ req = [t \in Threads |-> NoRequest]
    /\ seed = [t \in Threads |-> NoSeed]
    /\ generator = [t \in Threads |-> NoSeed]
    /\ prev_scheduler = [t \in Threads |-> NoScheduler]
    /\ new_scheduler = [t \in Threads |-> NoScheduler]
    /\ gen_scheduler = [t \in Threads |-> NoScheduler]
    /\ images = [t \in Threads |-> 0]
    /\ checked = [t \in Threads |-> FALSE]
    /\ has_nsfw_content = [t \in Threads |-> <<>>]
    /\ i = [t \in Threads |-> 0]
    /\ output_paths = [t \in Threads |-> <<>>]
    /\ saved = [t \in Threads |-> {}]
    /\ stdout = [t \in Threads |-> <<>>]
    /\ result = [t \in Threads |-> <<>>]
    /\ error = [t \in Threads |-> None]
    /\ overlapped = [t \in Threads |-> FALSE]

\* A variant of setup in the order: ensure and load the safety checker,
\* load the feature extractor, ensure and load the pipeline, ensure and load
\* the UNet checkpoint.
SetupOrder_interleaved ==
    <<"ensure_safety", "load_safety_checker", "load_feature_extractor",
      "ensure_base", "load_pipe", "ensure_unet", "load_unet_weights">>

\* The statements of setup in source order: the three cache checks of lines
\* 67-74, then the loads of lines 75-77, 78, 80-85 and 86-87.
SetupOrder ==
    <<"ensure_safety", "ensure_base", "ensure_unet",
      "load_safety_checker", "load_feature_extractor", "load_pipe",
      "load_unet_weights">>

\* A process that has completed setup over a fully cached disk.
SetupDone ==
    /\ disk = [a \in Artifacts |-> "complete"]
    /\ spc = "ready"
    /\ nruns = 1
    /\ steps = SetupOrder
    /\ started = [a \in Artifacts |-> 0]
    /\ fetched = [a \in Artifacts |-> 0]
    /\ skipped = [a \in Artifacts |-> 1]
    /\ loaded = Components

Init == InitPredict /\ SetupDone

(***************************************************************************)
(* Predictor.predict, lines 145-187.                                       *)
(***************************************************************************)
InFlight(t) == pc[t] \notin {"idle", "returned", "failed"}

\* Entry to predict with validated arguments r (the Input bounds of lines
\* 104-143 are enforced by the caller): the locals of the call are fresh.
Call(t, r) ==
    /\ spc = "ready"
    /\ ~InFlight(t)
    /\ ncalls < MaxCalls
    /\ ncalls' = ncalls + 1
    /\ pc' = [pc EXCEPT ![t] = "seed"]
    /\ call_id' = [call_id EXCEPT ![t] = ncalls + 1]
    /\ req' = [req EXCEPT ![t] = r]
    /\ seed' = [seed EXCEPT ![t] = r.seed]
    /\ generator' = [generator EXCEPT ![t] = NoSeed]
    /\ prev_scheduler' = [prev_scheduler EXCEPT ![t] = NoScheduler]
    /\ new_scheduler' = [new_scheduler EXCEPT ![t] = NoScheduler]
    /\ gen_scheduler' = [gen_scheduler EXCEPT ![t] = NoScheduler]
    /\ images' = [images EXCEPT ![t] = 0]
    /\ checked' = [checked EXCEPT ![t] = FALSE]
    /\ has_nsfw_content' = [has_nsfw_content EXCEPT ![t] = <<>>]
    /\ i' = [i EXCEPT ![t] = 0]
    /\ output_paths' = [output_paths EXCEPT ![t] = <<>>]
    /\ saved' = [saved EXCEPT ![t] = {}]
    /\ stdout' = [stdout EXCEPT ![t] = <<>>]
    /\ result' = [result EXCEPT ![t] = <<>>]
    /\ error' = [error EXCEPT ![t] = None]
    /\ overlapped' =
         [u \in Threads |->
            IF u = t THEN \E v \in Threads \ {t} : InFlight(v)
            ELSE overlapped[u] \/ InFlight(u)]
    /\ UNCHANGED <<pipe_scheduler, setupVars>>

\* Lines 146-149: resolve the seed, print it, seed the generator.
ResolveSeed(t) ==
    /\ pc[t] = "seed"
    /\ \E b \in UrandomSamples :
         LET s == IF NeedsRandomSeed(req[t].seed)
                  THEN <<FromBytesBig(b)>> ELSE req[t].seed
         IN /\ seed' = [seed EXCEPT ![t] = s]
            /\ stdout' = [stdout EXCEPT ![t] = Append(@, <<"Using seed: ", s[1]>>)]
            /\ generator' = [generator EXCEPT ![t] = s]
    /\ pc' = [pc EXCEPT ![t] = "prompt"]
    /\ UNCHANGED <<pipe_scheduler, ncalls, call_id, req, prev_scheduler,
                   new_scheduler, gen_scheduler, images, checked,
                   has_nsfw_content, i, output_paths, saved, result, error,
                   overlapped, setupVars>>

\* Lines 151-155: print the prompt; the size arguments and the local `pipe`
\* change nothing the model tracks.
PrintPrompt(t) ==
    /\ pc[t] = "prompt"
    /\ stdout' = [stdout EXCEPT ![t] = Append(@, <<"Prompt: ", req[t].prompt>>)]
    /\ pc' = [pc EXCEPT ![t] = "from_config"]
    /\ UNCHANGED <<pipe_scheduler, ncalls, call_id, req, seed, generator,
                   prev_scheduler, new_scheduler, gen_scheduler, images,
                   checked, has_nsfw_content, i, output_paths, saved, result,
                   error, overlapped, setupVars>>

\* Line 157, right-hand side: read pipe.scheduler.config and build the new
\* scheduler, or raise.
EvalFromConfig(t) ==
    /\ pc[t] = "from_config"
    /\ prev_scheduler' = [prev_scheduler EXCEPT ![t] = pipe_scheduler]
    /\ LET made == FromConfig(req[t].scheduler, pipe_scheduler.config,
                              TrailingKwargs)
       IN IF made.ok
          THEN /\ new_scheduler' =
                    [new_scheduler EXCEPT ![t] =
                        [kind |-> made.kind, config |-> made.config,
                         by |-> call_id[t]]]
               /\ pc' = [pc EXCEPT ![t] = "assign"]
               /\ error' = error
          ELSE /\ error' = [error EXCEPT ![t] = made.error]
               /\ pc' = [pc EXCEPT ![t] = "failed"]
               /\ new_scheduler' = new_scheduler
    /\ UNCHANGED <<pipe_scheduler, ncalls, call_id, req, seed, generator,
                   gen_scheduler, images, checked, has_nsfw_content, i,
                   output_paths, saved, stdout, result, overlapped,
                   setupVars>>

\* A variant of the store of line 157 that leaves the pipeline's attribute
\* as it was.
Stored_dropped(old, new) == old

\* The value of pipe.scheduler after the store of line 157.
Stored(old, new) == new

\* Line 157, the store to pipe.scheduler (pipe is self.pipe, line 155).
AssignScheduler(t) ==
    /\ pc[t] = "assign"
    /\ pipe_scheduler' = Stored(pipe_scheduler, new_scheduler[t])
    /\ pc' = [pc EXCEPT ![t] = "generate"]
    /\ UNCHANGED <<ncalls, call_id, req, seed, generator, prev_scheduler,
                   new_scheduler, gen_scheduler, images, checked,
                   has_nsfw_content, i, output_paths, saved, stdout, result,
                   error, overlapped, setupVars>>

\* Lines 159-167: the pipeline runs with whatever scheduler it holds now and
\* yields num_outputs images.
Generate(t) ==
    /\ pc[t] = "generate"
    /\ gen_scheduler' = [gen_scheduler EXCEPT ![t] = pipe_scheduler]
    /\ images' = [images EXCEPT ![t] = req[t].num_outputs]
    /\ pc' = [pc EXCEPT ![t] = "screen"]
    /\ UNCHANGED <<pipe_scheduler, ncalls, call_id, req, seed, generator,
                   prev_scheduler, new_scheduler, checked, has_nsfw_content,
                   i, output_paths, saved, stdout, result, error, overlapped,
                   setupVars>>

\* A variant of line 169 that runs the checker whatever the flag says.
RunsChecker_always(disable) == TRUE

\* `if not disable_safety_checker`, line 169.
RunsChecker(disable) == ~disable

\* Lines 169-172: the safety checker answers one flag per image, in any
\* way; then output_paths starts empty.
Screen(t) ==
    /\ pc[t] = "screen"
    /\ IF RunsChecker(req[t].disable_safety_checker)
       THEN /\ \E flags \in [0..(images[t] - 1) -> BOOLEAN] :
                 has_nsfw_content' = [has_nsfw_content EXCEPT ![t] = flags]
            /\ checked' = [checked EXCEPT ![t] = TRUE]
       ELSE UNCHANGED <<has_nsfw_content, checked>>
    /\ output_paths' = [output_paths EXCEPT ![t] = <<>>]
    /\ i' = [i EXCEPT ![t] = 0]
    /\ pc' = [pc EXCEPT ![t] = "loop"]
    /\ UNCHANGED <<pipe_scheduler, ncalls, call_id, req, seed, generator,
                   prev_scheduler, new_scheduler, gen_scheduler, images,
                   saved, stdout, result, error, overlapped, setupVars>>

\* A variant of lines 174-177 that never skips.
Skips_never(disable, flags, k) == FALSE

\* Lines 174-177: image k is skipped when the checker is on and flagged it.
Skips(disable, flags, k) == ~disable /\ flags[k]

\* A variant of line 178 that names every file alike.
OutPath_fixed(k) == <<"/tmp/out-", 0, ".png">>

\* f"/tmp/out-{i}.png", line 178.
OutPath(k) == <<"/tmp/out-", k, ".png">>

\* Lines 173-180, one iteration of the loop.
LoopStep(t) ==
    /\ pc[t] = "loop"
    /\ i[t] < images[t]
    /\ IF Skips(req[t].disable_safety_checker, has_nsfw_content[t], i[t])
       THEN /\ stdout' = [stdout EXCEPT ![t] =
                            Append(@, <<"NSFW content detected in image ", i[t]>>)]
            /\ UNCHANGED <<output_paths, saved>>
       ELSE /\ saved' = [saved EXCEPT ![t] = @ \cup {OutPath(i[t])}]
            /\ output_paths' = [output_paths EXCEPT ![t] = Append(@, OutPath(i[t]))]
            /\ stdout' = stdout
    /\ i' = [i EXCEPT ![t] = @ + 1]
    /\ UNCHANGED <<pipe_scheduler, ncalls, pc, call_id, req, seed, generator,
                   prev_scheduler, new_scheduler, gen_scheduler, images,
                   checked, has_nsfw_content, result, error, overlapped,
                   setupVars>>

\* A variant of line 182 that never raises.
AllFiltered_never(paths) == FALSE

\* `len(output_paths) == 0`, line 182.
AllFiltered(paths) == Len(paths) = 0

NsfwError == "Exception: NSFW content detected"

\* Lines 182-187, after the loop has ended: raise or return.
Finish(t) ==
    /\ pc[t] = "loop"
    /\ i[t] = images[t]
    /\ IF AllFiltered(output_paths[t])
       THEN /\ error' = [error EXCEPT ![t] = NsfwError]
            /\ pc' = [pc EXCEPT ![t] = "failed"]
            /\ result' = result
       ELSE /\ result' = [result EXCEPT ![t] = output_paths[t]]
            /\ pc' = [pc EXCEPT ![t] = "returned"]
            /\ error' = error
    /\ UNCHANGED <<pipe_scheduler, ncalls, call_id, req, seed, generator,
                   prev_scheduler, new_scheduler, gen_scheduler, images,
                   checked, has_nsfw_content, i, output_paths, saved, stdout,
                   overlapped, setupVars>>

Predict(t) ==
    \/ ResolveSeed(t)
    \/ PrintPrompt(t)
    \/ EvalFromConfig(t)
    \/ AssignScheduler(t)
    \/ Generate(t)
    \/ Screen(t)
    \/ LoopStep(t)
    \/ Finish(t)

\* One caller: the calls are serialized.
Next ==
    \/ \E r \in Requests : Call(1, r)
    \/ Predict(1)

Spec == Init /\ [][Next]_vars

\* Two callers and no lock.
NextConc ==
    \/ \E t \in Threads, r \in ConcRequests : Call(t, r)
    \/ \E t \in Threads : Predict(t)

SpecConc == Init /\ [][NextConc]_vars

(***************************************************************************)
(* Predictor.setup and download_weights, lines 53-88.                      *)
(***************************************************************************)
\* A cache directory is "absent", "partial" (it exists and lacks files a
\* load needs: a download failed after creating it) or "complete".

\* The artifact a step checks or reads, and the component a load yields.
ArtifactOf ==
    [ensure_safety |-> "safety", ensure_base |-> "base", ensure_unet |-> "unet",
     load_safety_checker |-> "safety", load_pipe |-> "base",
     load_unet_weights |-> "unet"]

ComponentOf ==
    [load_safety_checker |-> "safety_checker",
     load_feature_extractor |-> "feature_extractor",
     load_pipe |-> "pipe", load_unet_weights |-> "unet_weights"]

EnsureSteps == {"ensure_safety", "ensure_base", "ensure_unet"}

\* The position after the k-th statement of setup.
After(k) == IF k = Len(SetupOrder) THEN "ready" ELSE SetupOrder[k + 1]

\* steps so far is k statements long and the k+1-st is `step`.
AtStep(step) ==
    /\ spc = step
    /\ Len(steps) < Len(SetupOrder)
    /\ SetupOrder[Len(steps) + 1] = step

\* A fresh deployment: each cache directory is absent, or was shipped
\* complete; no process runs.
InitSetup ==
    /\ InitPredict
    /\ disk \in [Artifacts -> {"absent", "complete"}]
    /\ spc = "off"
    /\ nruns = 0
    /\ steps = <<>>
    /\ started = [a \in Artifacts |-> 0]
    /\ fetched = [a \in Artifacts |-> 0]
    /\ skipped = [a \in Artifacts |-> 0]
    /\ loaded = {}

\* A process starts and enters setup, line 61.
StartSetup ==
    /\ spc = "off"
    /\ nruns < MaxSetupRuns
    /\ nruns' = nruns + 1
    /\ spc' = SetupOrder[1]
    /\ steps' = <<>>
    /\ loaded' = {}
    /\ UNCHANGED <<disk, started, fetched, skipped, predictVars>>

\* `not os.path.exists(dest)`, lines 67, 70, 73.
NeedsDownload(dir) == dir = "absent"

\* Lines 67-68, 70-71, 73-74: the cache check of one artifact and, when the
\* directory is absent, its download (download_weights, lines 53-58, or
\* hf_hub_download).  A download completes, or fails and aborts setup,
\* leaving no directory or a partial one.
Ensure(step) ==
    /\ step \in EnsureSteps
    /\ AtStep(step)
    /\ steps' = Append(steps, step)
    /\ LET a == ArtifactOf[step]
       IN IF NeedsDownload(disk[a])
          THEN /\ started' = [started EXCEPT ![a] = @ + 1]
               /\ skipped' = skipped
               /\ \/ /\ disk' = [disk EXCEPT ![a] = "complete"]
                     /\ fetched' = [fetched EXCEPT ![a] = @ + 1]
                     /\ spc' = After(Len(steps) + 1)
                  \/ /\ \E left \in {disk[a], "partial"} :
                            disk' = [disk EXCEPT ![a] = left]
                     /\ fetched' = fetched
                     /\ spc' = "failed"
          ELSE /\ skipped' = [skipped EXCEPT ![a] = @ + 1]
               /\ spc' = After(Len(steps) + 1)
               /\ UNCHANGED <<disk, started, fetched>>
    /\ UNCHANGED <<nruns, loaded, predictVars>>

\* The loads that name a hub repository and give the cache directory as
\* cache_dir (lines 80-85: MODEL_BASE with cache_dir=BASE_CACHE).  The other
\* loads read a local path (lines 75-77: SAFETY_CACHE; lines 86-87: the file
\* under CKPT_CACHE).
HubLoaded == {"load_pipe"}

\* Lines 75-77, 80-85, 86-87: load a component.
\*  - A complete directory loads, with no download.
\*  - A directory that lacks files (partial or absent) fails a load from a
\*    local path; a load by hub id downloads the missing files into the
\*    directory, or fails part-way.  Once the download has completed the
\*    directory, the rest of the statement (building the pipeline, .to('cuda'),
\*    line 85) returns the component or raises.
\*  - The loader may raise whatever the directory holds.
\* An exception leaves setup with the components loaded so far.
Load(step) ==
    /\ step \in DOMAIN ComponentOf
    /\ step \in DOMAIN ArtifactOf
    /\ AtStep(step)
    /\ steps' = Append(steps, step)
    /\ LET a == ArtifactOf[step]
       IN \/ /\ disk[a] = "complete"
             /\ loaded' = loaded \cup {ComponentOf[step]}
             /\ spc' = After(Len(steps) + 1)
             /\ UNCHANGED <<disk, started, fetched>>
          \/ /\ step \in HubLoaded
             /\ disk[a] # "complete"
             /\ started' = [started EXCEPT ![a] = @ + 1]
             /\ \/ /\ disk' = [disk EXCEPT ![a] = "complete"]
                   /\ fetched' = [fetched EXCEPT ![a] = @ + 1]
                   /\ \/ /\ loaded' = loaded \cup {ComponentOf[step]}
                         /\ spc' = After(Len(steps) + 1)
                      \/ /\ loaded' = loaded
                         /\ spc' = "failed"
                \/ /\ disk' = [disk EXCEPT ![a] = "partial"]
                   /\ fetched' = fetched
                   /\ loaded' = loaded
                   /\ spc' = "failed"
          \/ /\ loaded' = loaded
             /\ spc' = "failed"
             /\ UNCHANGED <<disk, started, fetched>>
    /\ UNCHANGED <<nruns, skipped, predictVars>>

\* Line 78: the feature extractor comes from a directory of the image;
\* CLIPImageProcessor.from_pretrained returns it, or raises and leaves setup.
LoadFeatureExtractor ==
    /\ AtStep("load_feature_extractor")
    /\ steps' = Append(steps, "load_feature_extractor")
    /\ \/ /\ loaded' = loaded \cup {ComponentOf["load_feature_extractor"]}
          /\ spc' = After(Len(steps) + 1)
       \/ /\ loaded' = loaded
          /\ spc' = "failed"
    /\ UNCHANGED <<disk, nruns, started, fetched, skipped, predictVars>>

\* The process ends: after a failed setup, or at any time.  The disk stays.
Exit ==
    /\ spc # "off"
    /\ spc' = "off"
    /\ loaded' = {}
    /\ UNCHANGED <<disk, nruns, steps, started, fetched, skipped,
                   predictVars>>

NextSetup ==
    \/ StartSetup
    \/ \E step \in EnsureSteps : Ensure(step)
    \/ \E step \in DOMAIN ArtifactOf : Load(step)
    \/ LoadFeatureExtractor
    \/ Exit

SpecSetup == InitSetup /\ [][NextSetup]_vars

(***************************************************************************)
(* Properties of predict.                                                  *)
(***************************************************************************)
\* The call of thread t has ended, by return or by exception.
Ended(t) == pc[t] \in {"returned", "failed"}

\* The call of thread t has run the pipeline (line 167).
Generated(t) == images[t] > 0

\* The indices the checker flagged in the call of thread t.
Flagged(t) ==
    IF checked[t]
    THEN {k \in DOMAIN has_nsfw_content[t] : has_nsfw_content[t][k]}
    ELSE {}

\* C1: a predict call that returns, returns between 1 and num_outputs paths;
\* a call whose assembled list is empty after generation fails with the
\* NSFW exception instead of returning.
C1_ResultLength ==
    \A t \in Threads :
        /\ pc[t] = "returned" =>
              /\ 1 <= Len(result[t])
              /\ Len(result[t]) <= req[t].num_outputs
        /\ (Ended(t) /\ Generated(t) /\ Len(output_paths[t]) = 0) =>
              /\ pc[t] = "failed"
              /\ error[t] = "Exception: NSFW content detected"

\* A call for four images, all flagged with the checker on, has failed.
C1_Witness ==
    /\ pc[1] = "failed"
    /\ images[1] = MaxOutputs
    /\ checked[1]
    /\ Flagged(1) = 0..(MaxOutputs - 1)
    /\ error[1] = "Exception: NSFW content detected"

\* C2: with disable_safety_checker the checker is never run, no image is
\* dropped by the loop, the call does not fail for content, and the list
\* returned has exactly num_outputs paths.
C2_DisabledKeepsAll ==
    \A t \in Threads :
        req[t].disable_safety_checker =>
            /\ ~checked[t]
            /\ Len(output_paths[t]) = i[t]
            /\ error[t] # "Exception: NSFW content detected"
            /\ pc[t] = "returned" => Len(result[t]) = req[t].num_outputs
            /\ (Ended(t) /\ Generated(t)) => pc[t] = "returned"

\* A call for four images with the checker disabled has returned four paths.
C2_Witness ==
    /\ pc[1] = "returned"
    /\ req[1].disable_safety_checker
    /\ req[1].num_outputs = MaxOutputs
    /\ Len(result[1]) = MaxOutputs

\* C3: for each of the 8 scheduler names the swap of line 157 succeeds, so
\* no call fails before generation.
C3_EverySchedulerSwaps ==
    \A t \in Threads : pc[t] = "failed" => Generated(t)

\* What line 157 builds for a scheduler name on a pipeline that no call has
\* touched since setup.
OnFreshPipeline(name) == FromConfig(name, BaseConfig, TrailingKwargs)

\* C4: with one call at a time, the scheduler a call generates with is the
\* one this call built, and its class and configuration are those the same
\* name yields on a freshly set-up pipeline, whatever earlier calls selected.
C4_NoSchedulerLeak ==
    \A t \in Threads :
        Generated(t) =>
            /\ gen_scheduler[t].by = call_id[t]
            /\ gen_scheduler[t].kind = OnFreshPipeline(req[t].scheduler).kind
            /\ gen_scheduler[t].config = OnFreshPipeline(req[t].scheduler).config

\* A later call has generated with DPMSolverMultistep after an earlier call
\* had left another scheduler class on the pipeline.
C4_Witness ==
    /\ Generated(1)
    /\ call_id[1] >= 2
    /\ req[1].scheduler = "DPMSolverMultistep"
    /\ prev_scheduler[1].by >= 1
    /\ prev_scheduler[1].kind = "PNDMScheduler"
    /\ gen_scheduler[1].kind = "DPMSolverMultistepScheduler"

\* The indices a call keeps: all of them, less the flagged ones.
Kept(t) == (0..(req[t].num_outputs - 1)) \ Flagged(t)

\* C5: the list returned holds exactly the paths /tmp/out-<k>.png of the
\* kept indices k, each once, in increasing order of k.
C5_ResultIsKeptInOrder ==
    \A t \in Threads :
        pc[t] = "returned" =>
            /\ Len(result[t]) = Cardinality(Kept(t))
            /\ \A k \in Kept(t) :
                  \E j \in 1..Len(result[t]) :
                      result[t][j] = <<"/tmp/out-", k, ".png">>
            /\ \A j \in 1..Len(result[t]) :
                  /\ result[t][j][1] = "/tmp/out-"
                  /\ result[t][j][3] = ".png"
                  /\ result[t][j][2] \in Kept(t)
            /\ \A j \in 1..(Len(result[t]) - 1) :
                  result[t][j][2] < result[t][j + 1][2]

\* A call has returned with image 0 dropped and a later image kept: the
\* first path is not out-0.
C5_Witness ==
    /\ pc[1] = "returned"
    /\ req[1].num_outputs = MaxOutputs
    /\ Flagged(1) = {0, 2}
    /\ result[1] = << <<"/tmp/out-", 1, ".png">>, <<"/tmp/out-", 3, ".png">> >>

\* Both halves of a seed lie in 0..2^16-1: the seed lies in 0..2^32-1.
In32Bits(v) == v.hi \in 0..(Half - 1) /\ v.lo \in 0..(Half - 1)

\* C7: once the seed is resolved, a supplied seed (0 included) is the seed
\* used, a missing one is replaced by a value of 0..2^32-1; the first line
\* printed is that seed, and the generator is seeded with it.
C7_SeedResolution ==
    \A t \in Threads :
        pc[t] \notin {"idle", "seed"} =>
            /\ req[t].seed # NoSeed => seed[t] = req[t].seed
            /\ req[t].seed = NoSeed =>
                  /\ Len(seed[t]) = 1
                  /\ In32Bits(seed[t][1])
            /\ generator[t] = seed[t]
            /\ Len(stdout[t]) >= 1
            /\ stdout[t][1] = <<"Using seed: ", seed[t][1]>>

\* A call given seed 0 has generated with the generator seeded 0.
C7_Witness ==
    /\ Generated(1)
    /\ req[1].seed = <<[hi |-> 0, lo |-> 0]>>
    /\ generator[1] = <<[hi |-> 0, lo |-> 0]>>
    /\ stdout[1][1] = <<"Using seed: ", [hi |-> 0, lo |-> 0]>>

\* C10: a call that ran the checker saves no file for a flagged index, and
\* a call that failed because every image was flagged saved nothing.
C10_FlaggedNeverSaved ==
    \A t \in Threads :
        /\ \A k \in Flagged(t) : <<"/tmp/out-", k, ".png">> \notin saved[t]
        /\ error[t] = "Exception: NSFW content detected" => saved[t] = {}

\* A call has ended with image 1 flagged and images 0 and 2 saved.
C10_Witness ==
    /\ pc[1] = "returned"
    /\ Flagged(1) = {1}
    /\ saved[1] = {<<"/tmp/out-", 0, ".png">>, <<"/tmp/out-", 2, ".png">>}

\* C9: predict holds no lock.  A call generates with a scheduler another
\* call stored only if the two calls overlapped; calls that do not overlap
\* generate with their own scheduler.
C9_RaceOnlyWhenOverlapped ==
    \A t \in Threads :
        (Generated(t) /\ gen_scheduler[t].by # call_id[t]) => overlapped[t]

\* Two calls with different schedulers are in flight and one has generated
\* with the scheduler the other stored.
C9_Witness ==
    \E t \in Threads, u \in Threads :
        /\ t # u
        /\ Generated(t)
        /\ gen_scheduler[t].by = call_id[u]
        /\ gen_scheduler[t].kind = SCHEDULERS[req[u].scheduler]
        /\ gen_scheduler[t].kind # SCHEDULERS[req[t].scheduler]

(***************************************************************************)
(* Properties of setup.                                                    *)
(***************************************************************************)
\* C6: over any sequence of setup runs on one disk, a download of an
\* artifact starts only while its directory is absent, a directory that
\* exists stays as it is and nothing is fetched into it again, and no
\* artifact is fetched to completion more than once.
C6_FetchedAtMostOnce ==
    [][\A a \in Artifacts :
          /\ started'[a] > started[a] => disk[a] = "absent"
          /\ disk[a] # "absent" =>
                /\ disk'[a] = disk[a]
                /\ started'[a] = started[a]
                /\ fetched'[a] = fetched[a]
          /\ fetched'[a] <= 1]_vars

\* C8 as stated: each artifact's cache check comes right before its own
\* load, and the safety checker is loaded before the base artifact is
\* checked.
C8_DocumentedOrder ==
    \A k \in 1..Len(steps) :
        /\ steps[k] = "load_safety_checker" =>
              k > 1 /\ steps[k - 1] = "ensure_safety"
        /\ steps[k] = "load_pipe" => k > 1 /\ steps[k - 1] = "ensure_base"
        /\ steps[k] = "load_unet_weights" =>
              k > 1 /\ steps[k - 1] = "ensure_unet"
        /\ steps[k] = "ensure_base" =>
              \E j \in 1..(k - 1) : steps[j] = "load_safety_checker"

\* C8 as amended: setup checks the three caches first (safety, base, UNet
\* checkpoint), then loads the safety checker, the feature extractor, the
\* pipeline and the UNet weights: what a run has done is a prefix of that.
C8_SetupOrder ==
    /\ Len(steps) <= 7
    /\ steps = SubSeq(<<"ensure_safety", "ensure_base", "ensure_unet",
                        "load_safety_checker", "load_feature_extractor",
                        "load_pipe", "load_unet_weights">>, 1, Len(steps))

\* A setup run on an empty disk has fetched all three artifacts and loaded
\* all four components.
C8_Witness ==
    /\ spc = "ready"
    /\ Len(steps) = 7
    /\ loaded = Components
    /\ \A a \in Artifacts : fetched[a] = 1 /\ skipped[a] = 0

====
